---- MODULE Spec2Model ----
(***************************************************************************)
(* Invoice / quotation lifecycle of the Kayvan backend, modelled from      *)
(* controllers/invoiceController.js and the quotation controller.          *)
(*                                                                         *)
(* The relational store is the state: one variable per table.  A handler   *)
(* is one action; the statements it issues on a transaction connection     *)
(* build a working copy of the store that is either committed or rolled    *)
(* back.  Money is kept in whole currency units; the request domains are   *)
(* chosen so that every percentage is exact.  An optional request field    *)
(* or a nullable column is a set with at most one element ({} is           *)
(* undefined / NULL).  Amount columns are read back as numbers, and a      *)
(* persistence failure is injected at the writing statements and at the    *)
(* commit only.                                                            *)
(***************************************************************************)
EXTENDS Integers, Sequences, FiniteSets, TLC

VARIABLES invoices, invoice_items, invoice_payments, quotations,
          quotation_items, quotation_notifications, nextInvoiceId,
          nextQuotationId, last, ops, calls, admin_users

vars == <<invoices, invoice_items, invoice_payments, quotations,
          quotation_items, quotation_notifications, nextInvoiceId,
          nextQuotationId, last, ops, calls, admin_users>>

----------------------------------------------------------------------------
(* Bounds *)

MaxInvoices == 2

MaxQuotations == 1

\* number of handler calls in one behaviour
MaxOps == 4

\* number of handler calls that can be in flight at the same time
MaxCalls == 2

----------------------------------------------------------------------------
(* Request domains *)

InvoiceIds == 1..MaxInvoices

\* the ids a request names: every id handed out so far (stored or deleted)
\* and the first one not handed out yet
RequestIds(next) == {i \in InvoiceIds : i <= next}

QuotationIds == 1..MaxQuotations

Procs == 1..MaxCalls

\* what the timestamp-and-random suffix of a generated number can be
NumberSet == {1}

Opt(S) == {{}} \cup {{v} : v \in S}

PaymentAmounts == {0, 280, 300}

ItemRequests == {[unit_price |-> 250, quantity |-> 2, tax_rate |-> {}]}

ItemLists == {<<>>} \cup {<<it>> : it \in ItemRequests}

\* items that carry their own tax rate (or none)
RatedItemRequests ==
    {[unit_price |-> 250, quantity |-> 2, tax_rate |-> r] : r \in Opt({0, 10})}

RatedItemLists == {<<it>> : it \in RatedItemRequests}

\* a request that names every amount itself
BaseCreateRequest ==
    [quotation_id |-> {},
     customer_name |-> {"Customer"},
     customer_email |-> {"customer@example.com"},
     subtotal |-> 500,
     tax_rate |-> {},
     tax_amount |-> {80},
     discount_type |-> "none",
     discount_value |-> {},
     shipping_amount |-> {},
     total |-> {580},
     items |-> <<>>,
     status |-> {}]

CreateRequests ==
    {[BaseCreateRequest EXCEPT !.tax_amount = t] : t \in Opt({0, 80})}
    \cup {[BaseCreateRequest EXCEPT !.total = tt] : tt \in Opt({0, 580})}
    \cup {[BaseCreateRequest EXCEPT !.tax_amount = {}, !.total = {},
                                    !.discount_type = d, !.discount_value = {10},
                                    !.shipping_amount = sh] :
        d \in {"percentage", "fixed"}, sh \in Opt({50})}
    \cup {[BaseCreateRequest EXCEPT !.quotation_id = {q}] : q \in QuotationIds}
    \cup {[BaseCreateRequest EXCEPT !.items = its] : its \in ItemLists}
    \cup {[BaseCreateRequest EXCEPT !.status = {"pending"}]}

\* requests that leave out a customer field
CustomerlessCreateRequests ==
    {[BaseCreateRequest EXCEPT !.customer_name = {}],
     [BaseCreateRequest EXCEPT !.customer_email = {}]}

NoUpdate == [status |-> {}, total |-> {}, amount_paid |-> {}, items |-> {}]

\* updates of one header field, of total and amount_paid together, and
\* updates that replace the line items
UpdateRequests ==
    {[NoUpdate EXCEPT !.status = {st}] : st \in {"pending", "paid", "cancelled"}}
    \cup {[NoUpdate EXCEPT !.total = t, !.amount_paid = p] :
             t \in Opt({0, 300}), p \in Opt({0, 300})}
    \cup {[NoUpdate EXCEPT !.items = {its}] : its \in ItemLists}

----------------------------------------------------------------------------
(* JavaScript helpers *)

\* `x || d` and `if (x)` on a number: undefined, null and 0 are falsy
Truthy(x) == x # {} /\ x # {0}

Defined(x) == x # {}

Val(x) == CHOOSE v \in x : TRUE

\* `const { f = d } = req.body`
Default(x, d) == IF Defined(x) THEN Val(x) ELSE d

\* `x || d`
OrElse(x, d) == IF Truthy(x) THEN Val(x) ELSE d

----------------------------------------------------------------------------
(* The store and its transactions *)

Store ==
    [invoices |-> invoices,
     invoice_items |-> invoice_items,
     invoice_payments |-> invoice_payments,
     quotations |-> quotations,
     quotation_items |-> quotation_items,
     quotation_notifications |-> quotation_notifications,
     nextInvoiceId |-> nextInvoiceId,
     nextQuotationId |-> nextQuotationId]

Persist(s) ==
    /\ invoices' = s.invoices
    /\ invoice_items' = s.invoice_items
    /\ invoice_payments' = s.invoice_payments
    /\ quotations' = s.quotations
    /\ quotation_items' = s.quotation_items
    /\ quotation_notifications' = s.quotation_notifications
    /\ nextInvoiceId' = s.nextInvoiceId
    /\ nextQuotationId' = s.nextQuotationId
    /\ UNCHANGED admin_users

\* connection.rollback() in the catch block: the working copy is dropped
RollbackKeepsWrites(committed, working) == working

Rollback(committed, working) == committed

\* Statements issued on one connection between beginTransaction() and
\* commit().  states[1] is the store at beginTransaction, states[k+1] the
\* working copy after the k-th statement.  f = 0: every statement and the
\* commit succeed.  f = k: the k-th statement throws (f = Len(states): the
\* commit throws) and the catch block rolls back.
Transaction(states, f) ==
    IF f = 0 THEN states[Len(states)] ELSE Rollback(states[1], states[f])

\* Statements issued through pool.query(): each one commits on its own, so
\* what ran before the failing statement stays.  states[1] is the store at
\* the first statement; f = k: the k-th writing statement throws.
Autocommit(states, f) ==
    IF f = 0 THEN states[Len(states)] ELSE states[f]

\* the handlers that call beginTransaction() on a pooled connection
TransactionalOps ==
    {"createInvoice", "updateInvoice", "recordPayment", "markAsPaid",
     "duplicateInvoice", "submitQuotation", "convertToInvoice"}

\* What has become of the handler's transaction when `finally` releases the
\* connection: commit() has run after the last statement, rollback() has run
\* in the catch block, or neither has, on a `return res.status(404)` or
\* `return res.status(400)` inside the try block.
TransactionAtRelease(op, code) ==
    IF op \notin TransactionalOps THEN "none"
    ELSE IF code \in {200, 201} THEN "committed"
    ELSE IF code = 500 THEN "rolledBack"
    ELSE "open"

\* What the latest call was and what it answered.  error names what the
\* catch block caught; amount, tax_amount, total, status, items (their
\* number) and missing repeat the request fields the properties speak about
\* (missing: the required fields the request left out); reference is the
\* generated number or the reference the handler used, valid_until the
\* validity (in days from now) it answered; today, listed and calculated are
\* the day of a listing, the ids it returned and their calculated_status;
\* item_tax_rates are the own tax rates of the request's items that a
\* successful call has stored; username, password and token are the
\* credentials of a login and the token it answered.
Response(op, id, code) ==
    [op |-> op, id |-> id, code |-> code,
     error |-> IF code = 500 THEN "PersistenceError" ELSE "",
     transaction |-> TransactionAtRelease(op, code),
     amount |-> 0, tax_amount |-> {}, total |-> {}, status |-> {},
     items |-> 0, missing |-> {}, reference |-> {}, valid_until |-> {},
     today |-> 0, listed |-> {}, calculated |-> << >>,
     item_tax_rates |-> << >>,
     username |-> {}, password |-> {}, token |-> {}]

Exists(tbl, id) == id \in DOMAIN tbl

InsertRow(tbl, id, row) == [i \in DOMAIN tbl \cup {id} |-> IF i = id THEN row ELSE tbl[i]]

DeleteRow(tbl, id) == [i \in DOMAIN tbl \ {id} |-> tbl[i]]

\* a slot without a call in flight; a call in flight holds what its SELECT
\* has read
Idle == [op |-> "none", id |-> 0, amount |-> 0, invoice |-> {}]

\* bcrypt: a stored hash is not the password, it is what bcrypt.hash made of
\* it; bcrypt.compare throws on a missing hash
bcryptHash(password) == [bcrypt |-> password]

AccountRow(password_hash, is_active) ==
    [password_hash |-> password_hash, is_active |-> is_active, last_login |-> FALSE]

\* the admin_users table the invoice and quotation handlers run beside
SeededUsers ==
    [u \in {"admin"} |-> AccountRow({bcryptHash("secret")}, 1)]

\* the admin_users tables login is tried on: admin and staff accounts that
\* are active or deactivated, and an admin account without a hash
UserTables ==
    {[u \in {"admin", "staff"} |->
         IF u = "admin" THEN AccountRow(h, a) ELSE AccountRow({bcryptHash("staff pw")}, b)] :
        h \in Opt({bcryptHash("secret")}), a \in {0, 1}, b \in {0, 1}}

Init ==
    /\ admin_users = SeededUsers
    /\ calls = [p \in Procs |-> Idle]
    /\ invoices = [i \in {} |-> 0]
    /\ invoice_items = [i \in InvoiceIds |-> << >>]
    /\ invoice_payments = [i \in InvoiceIds |-> << >>]
    /\ quotations = [i \in {} |-> 0]
    /\ quotation_items = [i \in QuotationIds |-> << >>]
    /\ quotation_notifications = << >>
    /\ nextInvoiceId = 1
    /\ nextQuotationId = 1
    /\ last = Response("none", 0, 0)
    /\ ops = 0

\* a handler that returns before its first write
NoWrite ==
    UNCHANGED <<invoices, invoice_items, invoice_payments, quotations,
                quotation_items, quotation_notifications, nextInvoiceId,
                nextQuotationId, admin_users>>

\* every handler call is one step of the budget
Begin == ops < MaxOps /\ ops' = ops + 1

\* a call that runs from its first statement to its response with no other
\* call in between
Call == Begin /\ UNCHANGED calls

----------------------------------------------------------------------------
(* createInvoice *)

\* `shippingAmount` is read on lines 266 and 269 but declared nowhere (the
\* destructured name is shipping_amount): evaluating it throws ReferenceError.
shippingAmountDeclared == FALSE

discountAmount(req) ==
    IF req.discount_type = "percentage"
    THEN (req.subtotal * Default(req.discount_value, 0)) \div 100
    ELSE IF req.discount_type = "fixed"
    THEN Default(req.discount_value, 0)
    ELSE 0

\* tax_amount || (subtotal - discountAmount + shippingAmount) * (tax_rate / 100)
calculatedTaxAmount(req) ==
    IF Truthy(req.tax_amount)
    THEN [threw |-> FALSE, value |-> Val(req.tax_amount)]
    ELSE IF shippingAmountDeclared
    THEN [threw |-> FALSE,
          value |-> ((req.subtotal - discountAmount(req)
                      + Default(req.shipping_amount, 0))
                     * Default(req.tax_rate, 16)) \div 100]
    ELSE [threw |-> TRUE, value |-> 0]

\* total || (subtotal - discountAmount + shippingAmount + calculatedTaxAmount)
calculatedTotal(req) ==
    IF calculatedTaxAmount(req).threw
    THEN [threw |-> TRUE, value |-> 0]
    ELSE IF Truthy(req.total)
    THEN [threw |-> FALSE, value |-> Val(req.total)]
    ELSE IF shippingAmountDeclared
    THEN [threw |-> FALSE,
          value |-> req.subtotal - discountAmount(req)
                    + Default(req.shipping_amount, 0)
                    + calculatedTaxAmount(req).value]
    ELSE [threw |-> TRUE, value |-> 0]

\* one row of invoice_items as both createInvoice and updateInvoice compute it
ItemRow(item, invoiceTaxRate, i) ==
    LET rate == OrElse(item.tax_rate, invoiceTaxRate)
        itemTaxAmount == ((item.unit_price * item.quantity) * rate) \div 100
    IN  [unit_price |-> item.unit_price,
         quantity |-> item.quantity,
         tax_rate |-> rate,
         tax_amount |-> itemTaxAmount,
         total |-> (item.unit_price * item.quantity) + itemTaxAmount,
         sort_order |-> i]

ItemRows(items, invoiceTaxRate) ==
    [i \in 1..Len(items) |-> ItemRow(items[i], invoiceTaxRate, i - 1)]

\* Dates are day numbers.  `issue_date = new Date()`: documents are issued
\* on day IssueDay.
IssueDay == 0

\* `payment_terms = 30`
PaymentTerms == 30

calculateDueDate(issueDate, terms) == issueDate + terms

\* `status = 'draft'` in the destructuring of req.body
InitialStatus(req) == Default(req.status, "draft")

\* the customer fields a create request leaves out
MissingCustomerFields(req) ==
    {n \in {"customer_name"} : ~Defined(req.customer_name)}
    \cup {n \in {"customer_email"} : ~Defined(req.customer_email)}

NewInvoiceRow(req, number) ==
    [invoice_number |-> number,
     quotation_id |-> IF Truthy(req.quotation_id) THEN req.quotation_id ELSE {},
     customer_name |-> req.customer_name,
     customer_email |-> req.customer_email,
     status |-> InitialStatus(req),
     payment_status |-> "unpaid",
     subtotal |-> req.subtotal,
     tax_rate |-> Default(req.tax_rate, 16),
     tax_amount |-> calculatedTaxAmount(req).value,
     discount_amount |-> discountAmount(req),
     shipping_amount |-> Default(req.shipping_amount, 0),
     total |-> calculatedTotal(req).value,
     amount_paid |-> 0,
     balance_due |-> calculatedTotal(req).value,
     paid_date |-> FALSE,
     sent_at |-> FALSE,
     viewed_at |-> FALSE,
     due_date |-> calculateDueDate(IssueDay, PaymentTerms)]

\* what result.insertId is as a value of converted_to_invoice_id, and what
\* the string 'INV-' + <digits> is
InsertId(invoiceId) == [kind |-> "insertId", n |-> invoiceId]

InvoiceNumberString(number) == [kind |-> "string", n |-> number]

\* UPDATE quotations SET status = 'converted', converted_at = NOW(),
\* converted_to_invoice_id = ? WHERE id = ?
MarkQuotationConverted(tbl, qid, invoiceRef) ==
    IF Exists(tbl, qid)
    THEN [tbl EXCEPT ![qid].status = "converted",
                     ![qid].converted_at = TRUE,
                     ![qid].converted_to_invoice_id = {invoiceRef}]
    ELSE tbl

createInvoiceStates(req, number) ==
    LET s0 == Store
        invoiceId == s0.nextInvoiceId
        s1 == [s0 EXCEPT !.invoices = InsertRow(@, invoiceId, NewInvoiceRow(req, number)),
                         !.nextInvoiceId = @ + 1]
        s2 == [s1 EXCEPT !.invoice_items[invoiceId] =
                              ItemRows(req.items, Default(req.tax_rate, 16))]
        s3 == IF Truthy(req.quotation_id)
              THEN [s2 EXCEPT !.quotations =
                        MarkQuotationConverted(@, Val(req.quotation_id),
                                               InsertId(invoiceId))]
              ELSE s2
    IN  <<s0, s1>>
        \o (IF Len(req.items) > 0 THEN <<s2>> ELSE << >>)
        \o (IF Truthy(req.quotation_id) THEN <<s3>> ELSE << >>)

CreateResponse(req, number, id, code) ==
    [Response("createInvoice", id, code) EXCEPT
        !.tax_amount = req.tax_amount,
        !.total = req.total,
        !.status = req.status,
        !.missing = MissingCustomerFields(req),
        !.reference = {number},
        !.item_tax_rates = IF code = 201
                           THEN [i \in 1..Len(req.items) |-> req.items[i].tax_rate]
                           ELSE << >>]

createInvoice(req, number, f) ==
    /\ Call
    /\ nextInvoiceId <= MaxInvoices
    /\ IF calculatedTotal(req).threw
       THEN /\ f = 0
            /\ Persist(Rollback(Store, Store))
            /\ last' = [CreateResponse(req, number, 0, 500) EXCEPT
                            !.error = "ReferenceError"]
       ELSE /\ f \in 0..Len(createInvoiceStates(req, number))
            /\ Persist(Transaction(createInvoiceStates(req, number), f))
            /\ last' = CreateResponse(req, number,
                                      IF f = 0 THEN nextInvoiceId ELSE 0,
                                      IF f = 0 THEN 201 ELSE 500)

----------------------------------------------------------------------------
(* recordPayment *)

PaymentRow(amount) == [amount |-> amount]

\* `const newBalanceDue = invoice.total - newAmountPaid`
NewBalanceDueFromStoredBalance(invoice, newAmountPaid) ==
    invoice.balance_due - (newAmountPaid - invoice.amount_paid)

NewBalanceDue(invoice, newAmountPaid) == invoice.total - newAmountPaid

recordPaymentStates(id, amount) ==
    LET s0 == Store
        invoice == s0.invoices[id]
        s1 == [s0 EXCEPT !.invoice_payments[id] = Append(@, PaymentRow(amount))]
        newAmountPaid == invoice.amount_paid + amount
        newBalanceDue == NewBalanceDue(invoice, newAmountPaid)
        row1 == [invoice EXCEPT !.amount_paid = newAmountPaid,
                                !.balance_due = newBalanceDue]
        row2 == IF newBalanceDue <= 0
                THEN [row1 EXCEPT !.payment_status = "paid",
                                  !.status = "paid",
                                  !.paid_date = TRUE]
                ELSE IF newAmountPaid > 0
                THEN [row1 EXCEPT !.payment_status = "partial"]
                ELSE row1
        s2 == [s1 EXCEPT !.invoices[id] = row2]
    IN  <<s0, s1, s2>>

\* the two validity tests of lines 605 and 609
PaymentRejectedSkipsBalance(invoice, amount) == amount <= 0

PaymentRejected(invoice, amount) ==
    amount <= 0 \/ amount > invoice.balance_due

recordPayment(id, amount, f) ==
    /\ Call
    /\ IF ~Exists(invoices, id)
          THEN /\ f = 0
               /\ NoWrite
               /\ last' = [Response("recordPayment", id, 404) EXCEPT !.amount = amount]
          ELSE IF PaymentRejected(invoices[id], amount)
          THEN /\ f = 0
               /\ NoWrite
               /\ last' = [Response("recordPayment", id, 400) EXCEPT !.amount = amount]
          ELSE /\ f \in 0..3
               /\ Persist(Transaction(recordPaymentStates(id, amount), f))
               /\ last' = [Response("recordPayment", id, IF f = 0 THEN 200 ELSE 500)
                              EXCEPT !.amount = amount]

----------------------------------------------------------------------------
(* updateInvoice *)

\* the assignments of the dynamically built UPDATE, applied left to right
\* (a column assigned twice keeps the last value)
UpdatedInvoiceRow(invoice, updates) ==
    LET r1 == [invoice EXCEPT
                  !.status = Default(updates.status, @),
                  !.total = Default(updates.total, @)]
        recalculate == Defined(updates.total) \/ Defined(updates.amount_paid)
        newTotal == Default(updates.total, invoice.total)
        newAmountPaid == Default(updates.amount_paid, invoice.amount_paid)
        newBalanceDue == newTotal - newAmountPaid
        r2 == IF ~recalculate THEN r1
              ELSE IF newBalanceDue <= 0
              THEN [r1 EXCEPT !.balance_due = newBalanceDue,
                              !.payment_status = "paid",
                              !.paid_date = TRUE,
                              !.status = "paid"]
              ELSE IF newAmountPaid > 0
              THEN [r1 EXCEPT !.balance_due = newBalanceDue,
                              !.payment_status = "partial"]
              ELSE [r1 EXCEPT !.balance_due = newBalanceDue]
    IN  IF updates.status = {"paid"} /\ invoice.status # "paid"
        THEN [r2 EXCEPT !.paid_date = TRUE,
                        !.payment_status = "paid",
                        !.balance_due = 0]
        ELSE r2

updateInvoiceStates(id, updates) ==
    LET s0 == Store
        invoice == s0.invoices[id]
        s1 == [s0 EXCEPT !.invoices[id] = UpdatedInvoiceRow(invoice, updates)]
        s2 == IF Defined(updates.items)
              THEN [s1 EXCEPT !.invoice_items[id] = << >>]
              ELSE s1
        s3 == IF Defined(updates.items)
              THEN [s2 EXCEPT !.invoice_items[id] =
                                  ItemRows(Val(updates.items), invoice.tax_rate)]
              ELSE s2
    IN  <<s0>>
        \o (IF Defined(updates.status) \/ Defined(updates.total)
               \/ Defined(updates.amount_paid)
            THEN <<s1>> ELSE << >>)
        \o (IF Defined(updates.items) THEN <<s2, s3>> ELSE << >>)

\* `if (invoice.status === 'paid') return res.status(400)`
UpdateRejectedNever(invoice) == FALSE

UpdateRejected(invoice) == invoice.status = "paid"

updateInvoice(id, updates, f) ==
    /\ Call
    /\ IF ~Exists(invoices, id)
          THEN /\ f = 0
               /\ NoWrite
               /\ last' = Response("updateInvoice", id, 404)
          ELSE IF UpdateRejected(invoices[id])
          THEN /\ f = 0
               /\ NoWrite
               /\ last' = Response("updateInvoice", id, 400)
          ELSE /\ f \in 0..Len(updateInvoiceStates(id, updates))
               /\ Persist(Transaction(updateInvoiceStates(id, updates), f))
               /\ last' = [Response("updateInvoice", id, IF f = 0 THEN 200 ELSE 500)
                              EXCEPT !.item_tax_rates =
                                  IF f = 0 /\ Defined(updates.items)
                                  THEN [i \in 1..Len(Val(updates.items)) |->
                                           Val(updates.items)[i].tax_rate]
                                  ELSE << >>]

----------------------------------------------------------------------------
(* deleteInvoice *)

\* `if (invoice[0].status !== 'draft') return res.status(400)`
DeleteRejectedNever(invoice) == FALSE

DeleteRejected(invoice) == invoice.status # "draft"

\* the line items and payments of a deleted invoice go with it
CascadeDelete(s, id) ==
    [s EXCEPT !.invoice_items[id] = << >>,
              !.invoice_payments[id] = << >>]

\* DELETE FROM invoices WHERE id = ?
DeleteInvoiceRow(s, id) ==
    [CascadeDelete(s, id) EXCEPT !.invoices = DeleteRow(@, id)]

deleteInvoice(id, f) ==
    /\ Call
    /\ IF ~Exists(invoices, id)
          THEN /\ f = 0
               /\ NoWrite
               /\ last' = Response("deleteInvoice", id, 404)
          ELSE IF DeleteRejected(invoices[id])
          THEN /\ f = 0
               /\ NoWrite
               /\ last' = Response("deleteInvoice", id, 400)
          ELSE /\ f \in 0..1
               /\ Persist(Autocommit(<<Store, DeleteInvoiceRow(Store, id)>>, f))
               /\ last' = Response("deleteInvoice", id, IF f = 0 THEN 200 ELSE 500)

----------------------------------------------------------------------------
(* markAsSent *)

markAsSent(id, f) ==
    /\ Call
    /\ IF Exists(invoices, id) /\ invoices[id].status = "draft"
          THEN /\ f \in 0..1
               /\ Persist(Autocommit(
                      <<Store, [Store EXCEPT !.invoices[id].sent_at = TRUE,
                                             !.invoices[id].status = "pending"]>>, f))
               /\ last' = Response("markAsSent", id, IF f = 0 THEN 200 ELSE 500)
          ELSE /\ f = 0
               /\ NoWrite
               /\ last' = Response("markAsSent", id, 404)

----------------------------------------------------------------------------
(* markAsPaid *)

\* the amount of the payment row markAsPaid inserts
FullPaymentOfTotal(invoice) == invoice.total

FullPayment(invoice) == invoice.balance_due

markAsPaidStates(id) ==
    LET s0 == Store
        invoice == s0.invoices[id]
        s1 == [s0 EXCEPT !.invoice_payments[id] =
                              Append(@, PaymentRow(FullPayment(invoice)))]
        s2 == [s1 EXCEPT !.invoices[id] =
                  [s1.invoices[id] EXCEPT !.status = "paid",
                                          !.payment_status = "paid",
                                          !.paid_date = TRUE,
                                          !.amount_paid = s1.invoices[id].total,
                                          !.balance_due = 0]]
    IN  <<s0, s1, s2>>

markAsPaid(id, f) ==
    /\ Call
    /\ IF ~Exists(invoices, id)
          THEN /\ f = 0
               /\ NoWrite
               /\ last' = Response("markAsPaid", id, 404)
          ELSE /\ f \in 0..3
               /\ Persist(Transaction(markAsPaidStates(id), f))
               /\ last' = Response("markAsPaid", id, IF f = 0 THEN 200 ELSE 500)

----------------------------------------------------------------------------
(* duplicateInvoice *)

\* the INSERT ... SELECT of lines 841-864: the columns it does not list get
\* their defaults
DuplicateRowKeepsNumber(original, number) ==
    [original EXCEPT !.quotation_id = {},
                     !.status = "draft",
                     !.payment_status = "unpaid",
                     !.amount_paid = 0,
                     !.balance_due = original.total,
                     !.paid_date = FALSE,
                     !.sent_at = FALSE,
                     !.viewed_at = FALSE,
                     !.due_date = calculateDueDate(IssueDay, PaymentTerms)]

DuplicateRow(original, number) ==
    [original EXCEPT !.invoice_number = number,
                     !.quotation_id = {},
                     !.status = "draft",
                     !.payment_status = "unpaid",
                     !.amount_paid = 0,
                     !.balance_due = original.total,
                     !.paid_date = FALSE,
                     !.sent_at = FALSE,
                     !.viewed_at = FALSE,
                     !.due_date = calculateDueDate(IssueDay, PaymentTerms)]

duplicateInvoiceStates(id, number) ==
    LET s0 == Store
        newInvoiceId == s0.nextInvoiceId
        s1 == [s0 EXCEPT !.invoices =
                             InsertRow(@, newInvoiceId, DuplicateRow(s0.invoices[id], number)),
                         !.nextInvoiceId = @ + 1]
        s2 == [s1 EXCEPT !.invoice_items[newInvoiceId] = s1.invoice_items[id]]
    IN  <<s0, s1, s2>>

duplicateInvoice(id, number, f) ==
    /\ Call
    /\ IF ~Exists(invoices, id)
          THEN /\ f = 0
               /\ NoWrite
               /\ last' = Response("duplicateInvoice", id, 404)
          ELSE /\ nextInvoiceId <= MaxInvoices
               /\ f \in 0..3
               /\ Persist(Transaction(duplicateInvoiceStates(id, number), f))
               /\ last' = [Response("duplicateInvoice", id,
                                    IF f = 0 THEN 200 ELSE 500)
                               EXCEPT !.reference = {number}]

----------------------------------------------------------------------------
(* getInvoiceById *)

\* `if (!invoice.viewed_at) UPDATE invoices SET viewed_at = NOW()`
getInvoiceById(id, f) ==
    /\ Call
    /\ IF ~Exists(invoices, id)
          THEN /\ f = 0
               /\ NoWrite
               /\ last' = Response("getInvoiceById", id, 404)
          ELSE IF invoices[id].viewed_at
          THEN /\ f = 0
               /\ NoWrite
               /\ last' = Response("getInvoiceById", id, 200)
          ELSE /\ f \in 0..1
               /\ Persist(Autocommit(
                      <<Store, [Store EXCEPT !.invoices[id].viewed_at = TRUE]>>, f))
               /\ last' = Response("getInvoiceById", id, IF f = 0 THEN 200 ELSE 500)

----------------------------------------------------------------------------
(* getAllInvoices *)

\* the days CURDATE() can be: the due date of the stored invoices and the
\* day after it
Todays ==
    {calculateDueDate(IssueDay, PaymentTerms),
     calculateDueDate(IssueDay, PaymentTerms) + 1}

StatusFilters == {"all", "overdue", "pending", "cancelled"}

\* the CASE expression of lines 35-40
calculated_status(i, today) ==
    IF i.status = "paid" THEN "paid"
    ELSE IF i.due_date < today /\ i.balance_due > 0 THEN "overdue"
    ELSE IF i.status = "draft" THEN "draft"
    ELSE i.status

\* the WHERE clause the status filter adds
MatchesStatusFilter(i, status, today) ==
    IF status = "all" THEN TRUE
    ELSE IF status = "overdue"
    THEN i.due_date < today /\ i.balance_due > 0 /\ i.status # "paid"
    ELSE i.status = status

getAllInvoices(status, today) ==
    /\ Call
    /\ NoWrite
    /\ LET rows == {id \in DOMAIN invoices :
                       MatchesStatusFilter(invoices[id], status, today)}
       IN  last' = [Response("getAllInvoices", 0, 200) EXCEPT
                       !.status = {status},
                       !.today = today,
                       !.listed = rows,
                       !.calculated =
                           [id \in rows |-> calculated_status(invoices[id], today)]]

----------------------------------------------------------------------------
(* submitQuotation *)

QuotationRequestIds(next) == {i \in QuotationIds : i <= next}

QuotationItemRequests == {[quantity |-> 2, price |-> 500, total |-> 1000]}

\* a complete request, and the requests that leave out the name, the email
\* or the items (absent, or an empty list)
SubmitRequests ==
    LET complete == [customer_name : {TRUE},
                     customer_email : {TRUE},
                     items : {{<<it>>} : it \in QuotationItemRequests},
                     subtotal : {1000}, vat : {160}, total : {1160}]
    IN  complete
        \cup {[r EXCEPT !.customer_name = FALSE] : r \in complete}
        \cup {[r EXCEPT !.customer_email = FALSE] : r \in complete}
        \cup {[r EXCEPT !.items = its] : r \in complete, its \in {{}, {<<>>}}}

\* validUntil.setDate(validUntil.getDate() + 30)
ValidityDays == 30

NewQuotationRow(req, reference) ==
    [quotation_id |-> reference,
     status |-> "pending",
     subtotal |-> req.subtotal,
     vat |-> req.vat,
     total |-> req.total,
     valid_until |-> ValidityDays,
     admin_notes |-> {},
     viewed_at |-> FALSE,
     converted_at |-> FALSE,
     converted_to_invoice_id |-> {}]

QuotationItemRow(item) ==
    [quantity |-> item.quantity, unit_price |-> item.price, total |-> item.total]

Notification(qid, type) == [quotation_id |-> qid, notification_type |-> type]

ItemsOf(req) == IF Defined(req.items) THEN Val(req.items) ELSE << >>

submitQuotationStates(req, reference) ==
    LET s0 == Store
        quotationDbId == s0.nextQuotationId
        s1 == [s0 EXCEPT !.quotations =
                             InsertRow(@, quotationDbId, NewQuotationRow(req, reference)),
                         !.nextQuotationId = @ + 1]
        s2 == [s1 EXCEPT !.quotation_items[quotationDbId] =
                             [i \in 1..Len(ItemsOf(req)) |->
                                 QuotationItemRow(ItemsOf(req)[i])]]
        s3 == [s2 EXCEPT !.quotation_notifications =
                             Append(@, Notification(quotationDbId, "new"))]
    IN  <<s0, s1, s2, s3>>

\* the required fields a submit request leaves out
MissingSubmitFields(req) ==
    {n \in {"customer.name"} : ~req.customer_name}
    \cup {n \in {"customer.email"} : ~req.customer_email}
    \cup {n \in {"items"} : Len(ItemsOf(req)) = 0}

\* the two validity tests of lines 33 and 39
SubmitRejectedIgnoresItems(req) == ~req.customer_name \/ ~req.customer_email

SubmitRejected(req) ==
    \/ ~req.customer_name \/ ~req.customer_email
    \/ ~Defined(req.items) \/ Len(ItemsOf(req)) = 0

SubmitResponse(req, reference, id, code) ==
    [Response("submitQuotation", id, code) EXCEPT
        !.items = Len(ItemsOf(req)),
        !.missing = MissingSubmitFields(req),
        !.reference = IF code = 201 THEN {reference} ELSE {},
        !.valid_until = IF code = 201 THEN {ValidityDays} ELSE {}]

submitQuotation(req, reference, f) ==
    /\ Call
    /\ IF SubmitRejected(req)
          THEN /\ f = 0
               /\ NoWrite
               /\ last' = SubmitResponse(req, reference, 0, 400)
          ELSE /\ nextQuotationId <= MaxQuotations
               /\ f \in 0..4
               /\ Persist(Transaction(submitQuotationStates(req, reference), f))
               /\ last' = SubmitResponse(req, reference,
                                         IF f = 0 THEN nextQuotationId ELSE 0,
                                         IF f = 0 THEN 201 ELSE 500)

----------------------------------------------------------------------------
(* trackQuotation *)

trackQuotation(reference) ==
    /\ Call
    /\ NoWrite
    /\ last' = [Response("trackQuotation", 0,
                         IF \E q \in DOMAIN quotations :
                                quotations[q].quotation_id = reference
                         THEN 200 ELSE 404)
                   EXCEPT !.reference = {reference}]

----------------------------------------------------------------------------
(* getQuotationById *)

\* UPDATE quotations SET status = 'viewed', viewed_at = NOW()
\* WHERE id = ? AND status = 'pending'
MarkViewedInAnyStatus(tbl, id) ==
    IF Exists(tbl, id)
    THEN [tbl EXCEPT ![id].status = "viewed", ![id].viewed_at = TRUE]
    ELSE tbl

MarkViewed(tbl, id) ==
    IF Exists(tbl, id) /\ tbl[id].status = "pending"
    THEN [tbl EXCEPT ![id].status = "viewed", ![id].viewed_at = TRUE]
    ELSE tbl

HasNotification(notifications, qid, type) ==
    \E i \in 1..Len(notifications) : notifications[i] = Notification(qid, type)

\* INSERT INTO quotation_notifications ... SELECT ?, 'viewed', false FROM DUAL
\* WHERE NOT EXISTS (...)
AddViewedNotification(notifications, id) ==
    IF HasNotification(notifications, id, "viewed")
    THEN notifications
    ELSE Append(notifications, Notification(id, "viewed"))

getQuotationByIdStates(id) ==
    LET s0 == Store
        s1 == [s0 EXCEPT !.quotations = MarkViewed(@, id)]
        s2 == [s1 EXCEPT !.quotation_notifications = AddViewedNotification(@, id)]
    IN  <<s0, s1, s2>>

getQuotationById(id, f) ==
    /\ Call
    /\ f \in 0..2
    /\ Persist(Autocommit(getQuotationByIdStates(id), f))
    /\ last' = Response("getQuotationById", id,
                        IF f # 0 THEN 500
                        ELSE IF Exists(quotations, id) THEN 200 ELSE 404)

----------------------------------------------------------------------------
(* updateQuotationStatus *)

validStatuses ==
    {"pending", "viewed", "processing", "converted", "expired", "cancelled"}

\* the statuses a request names: valid ones and one that is not
StatusRequests == {"pending", "processing", "converted", "archived"}

SetStatus(tbl, id, status) ==
    IF ~Exists(tbl, id) THEN tbl
    ELSE IF status = "converted"
    THEN [tbl EXCEPT ![id].status = status, ![id].converted_at = TRUE]
    ELSE [tbl EXCEPT ![id].status = status]

updateQuotationStatusStates(id, status) ==
    LET s0 == Store
        s1 == [s0 EXCEPT !.quotations = SetStatus(@, id, status)]
        s2 == [s1 EXCEPT !.quotation_notifications =
                             Append(@, Notification(id, "converted"))]
    IN  <<s0, s1>> \o (IF status = "converted" THEN <<s2>> ELSE << >>)

updateQuotationStatus(id, status, f) ==
    /\ Call
    /\ IF status \notin validStatuses
          THEN /\ f = 0
               /\ NoWrite
               /\ last' = [Response("updateQuotationStatus", id, 400)
                              EXCEPT !.status = {status}]
          ELSE /\ f \in 0..(Len(updateQuotationStatusStates(id, status)) - 1)
               /\ Persist(Autocommit(updateQuotationStatusStates(id, status), f))
               /\ last' = [Response("updateQuotationStatus", id,
                                    IF f = 0 THEN 200 ELSE 500)
                              EXCEPT !.status = {status}]

----------------------------------------------------------------------------
(* updateQuotationNotes *)

NotesRequests == {"call back"}

\* UPDATE quotations SET admin_notes = ? WHERE id = ?
SetNotes(tbl, id, admin_notes) ==
    IF Exists(tbl, id) THEN [tbl EXCEPT ![id].admin_notes = {admin_notes}] ELSE tbl

updateQuotationNotes(id, admin_notes, f) ==
    /\ Call
    /\ f \in 0..1
    /\ Persist(Autocommit(
           <<Store, [Store EXCEPT !.quotations = SetNotes(@, id, admin_notes)]>>, f))
    /\ last' = Response("updateQuotationNotes", id, IF f = 0 THEN 200 ELSE 500)

----------------------------------------------------------------------------
(* convertToInvoice *)

\* `const invoiceId = 'INV-' + Date.now().toString().slice(-8)`: no invoice
\* is inserted (line 411 is a TODO)
convertToInvoiceStates(id, number) ==
    LET s0 == Store
        s1 == [s0 EXCEPT !.quotations =
                             MarkQuotationConverted(@, id, InvoiceNumberString(number))]
        s2 == [s1 EXCEPT !.quotation_notifications =
                             Append(@, Notification(id, "converted"))]
    IN  <<s0, s1, s2>>

convertToInvoice(id, number, f) ==
    /\ Call
    /\ IF ~Exists(quotations, id)
          THEN /\ f = 0
               /\ NoWrite
               /\ last' = Response("convertToInvoice", id, 404)
          ELSE /\ f \in 0..3
               /\ Persist(Transaction(convertToInvoiceStates(id, number), f))
               /\ last' = [Response("convertToInvoice", id,
                                    IF f = 0 THEN 200 ELSE 500)
                              EXCEPT !.reference = {number}]

----------------------------------------------------------------------------
(* deleteQuotation *)

\* the line items of a deleted quotation go with it
CascadeDeleteQuotation(s, id) == [s EXCEPT !.quotation_items[id] = << >>]

\* DELETE FROM quotations WHERE id = ?
DeleteQuotationRow(s, id) ==
    [CascadeDeleteQuotation(s, id) EXCEPT !.quotations = DeleteRow(@, id)]

deleteQuotation(id, f) ==
    /\ Call
    /\ IF ~Exists(quotations, id)
          THEN /\ f = 0
               /\ NoWrite
               /\ last' = Response("deleteQuotation", id, 404)
          ELSE /\ f \in 0..1
               /\ Persist(Autocommit(<<Store, DeleteQuotationRow(Store, id)>>, f))
               /\ last' = Response("deleteQuotation", id, IF f = 0 THEN 200 ELSE 500)

----------------------------------------------------------------------------
(* login *)

Usernames == {"admin", "staff", "ghost"}

Passwords == {"secret", "staff pw", "Admin123!", "password123", "guess"}

\* bcrypt.compare(password, user.password_hash) inside its try block
bcryptCompare(password, password_hash) ==
    IF ~Defined(password_hash)
    THEN [threw |-> TRUE, isMatch |-> FALSE]
    ELSE [threw |-> FALSE, isMatch |-> bcryptHash(password) = Val(password_hash)]

\* lines 1069-1088: when bcrypt.compare answered false without throwing, the
\* two default passwords are accepted for the username admin
isMatch(username, password, password_hash) ==
    LET compared == bcryptCompare(password, password_hash)
    IN  \/ compared.isMatch
        \/ /\ ~compared.threw
           /\ username = "admin"
           /\ password \in {"Admin123!", "password123"}

LoginResponse(username, password, code) ==
    [Response("login", 0, code) EXCEPT
        !.error = "",
        !.username = username,
        !.password = password]

login(username, password, jwtSecret) ==
    /\ Begin
    /\ UNCHANGED <<calls, invoices, invoice_items, invoice_payments, quotations,
                   quotation_items, quotation_notifications, nextInvoiceId,
                   nextQuotationId>>
    /\ IF ~Defined(username) \/ ~Defined(password)
          THEN /\ UNCHANGED admin_users
               /\ last' = LoginResponse(username, password, 400)
          ELSE IF Val(username) \notin DOMAIN admin_users
          THEN /\ UNCHANGED admin_users
               /\ last' = LoginResponse(username, password, 401)
          ELSE IF admin_users[Val(username)].is_active = 0
          THEN /\ UNCHANGED admin_users
               /\ last' = LoginResponse(username, password, 401)
          ELSE IF ~isMatch(Val(username), Val(password),
                           admin_users[Val(username)].password_hash)
          THEN /\ admin_users' = [admin_users EXCEPT ![Val(username)].last_login = FALSE]
               /\ last' = LoginResponse(username, password, 401)
          ELSE /\ admin_users' = [admin_users EXCEPT ![Val(username)].last_login = TRUE]
               /\ last' = IF jwtSecret
                          THEN [LoginResponse(username, password, 200) EXCEPT
                                   !.token = username]
                          ELSE LoginResponse(username, password, 500)

----------------------------------------------------------------------------
(* Handlers whose awaits interleave with other calls *)

\* a new call takes the first free slot
FreeSlot(p) == calls[p] = Idle /\ \A q \in 1..(p - 1) : calls[q] # Idle

Finish(p) == calls' = [calls EXCEPT ![p] = Idle] /\ UNCHANGED ops

\* recordPayment up to its INSERT: the SELECT (a plain, non-locking read) and
\* the validity tests
recordPaymentRead(p, id, amount) ==
    /\ Begin
    /\ FreeSlot(p)
    /\ NoWrite
    /\ IF ~Exists(invoices, id)
          THEN /\ UNCHANGED calls
               /\ last' = [Response("recordPayment", id, 404) EXCEPT !.amount = amount]
          ELSE IF PaymentRejected(invoices[id], amount)
          THEN /\ UNCHANGED calls
               /\ last' = [Response("recordPayment", id, 400) EXCEPT !.amount = amount]
          ELSE /\ calls' = [calls EXCEPT ![p] =
                               [op |-> "recordPayment", id |-> id, amount |-> amount,
                                invoice |-> {invoices[id]}]]
               /\ UNCHANGED last

\* the columns the UPDATE of recordPayment assigns, computed from the row the
\* SELECT returned
PaymentUpdate(row, invoice, amount) ==
    LET newAmountPaid == invoice.amount_paid + amount
        newBalanceDue == NewBalanceDue(invoice, newAmountPaid)
        r1 == [row EXCEPT !.amount_paid = newAmountPaid,
                          !.balance_due = newBalanceDue]
    IN  IF newBalanceDue <= 0
        THEN [r1 EXCEPT !.payment_status = "paid",
                        !.status = "paid",
                        !.paid_date = TRUE]
        ELSE IF newAmountPaid > 0
        THEN [r1 EXCEPT !.payment_status = "partial"]
        ELSE r1

\* the INSERT, the UPDATE and the commit of recordPayment; when the invoice
\* is gone by then the INSERT fails and the catch block rolls back
recordPaymentWrite(p) ==
    /\ calls[p].op = "recordPayment"
    /\ Finish(p)
    /\ LET id == calls[p].id
           amount == calls[p].amount
           invoice == Val(calls[p].invoice)
       IN  IF ~Exists(invoices, id)
           THEN /\ NoWrite
                /\ last' = [Response("recordPayment", id, 500) EXCEPT !.amount = amount]
           ELSE /\ Persist([Store EXCEPT
                               !.invoice_payments[id] = Append(@, PaymentRow(amount)),
                               !.invoices[id] = PaymentUpdate(@, invoice, amount)])
                /\ last' = [Response("recordPayment", id, 200) EXCEPT !.amount = amount]

\* markAsPaid up to its INSERT
markAsPaidRead(p, id) ==
    /\ Begin
    /\ FreeSlot(p)
    /\ NoWrite
    /\ IF ~Exists(invoices, id)
          THEN /\ UNCHANGED calls
               /\ last' = Response("markAsPaid", id, 404)
          ELSE /\ calls' = [calls EXCEPT ![p] =
                               [op |-> "markAsPaid", id |-> id, amount |-> 0,
                                invoice |-> {invoices[id]}]]
               /\ UNCHANGED last

\* the INSERT of the balance_due that was read, the UPDATE ... SET
\* amount_paid = total, balance_due = 0 and the commit of markAsPaid
markAsPaidWrite(p) ==
    /\ calls[p].op = "markAsPaid"
    /\ Finish(p)
    /\ LET id == calls[p].id
           invoice == Val(calls[p].invoice)
       IN  IF ~Exists(invoices, id)
           THEN /\ NoWrite
                /\ last' = Response("markAsPaid", id, 500)
           ELSE /\ Persist([Store EXCEPT
                               !.invoice_payments[id] =
                                   Append(@, PaymentRow(FullPayment(invoice))),
                               !.invoices[id] =
                                   [@ EXCEPT !.status = "paid",
                                             !.payment_status = "paid",
                                             !.paid_date = TRUE,
                                             !.amount_paid = invoices[id].total,
                                             !.balance_due = 0]])
                /\ last' = Response("markAsPaid", id, 200)

\* deleteInvoice up to its DELETE: SELECT status and the two tests
deleteInvoiceRead(p, id) ==
    /\ Begin
    /\ FreeSlot(p)
    /\ NoWrite
    /\ IF ~Exists(invoices, id)
          THEN /\ UNCHANGED calls
               /\ last' = Response("deleteInvoice", id, 404)
          ELSE IF DeleteRejected(invoices[id])
          THEN /\ UNCHANGED calls
               /\ last' = Response("deleteInvoice", id, 400)
          ELSE /\ calls' = [calls EXCEPT ![p] =
                               [op |-> "deleteInvoice", id |-> id, amount |-> 0,
                                invoice |-> {invoices[id]}]]
               /\ UNCHANGED last

\* DELETE FROM invoices WHERE id = ?  (its result is not looked at)
deleteInvoiceWrite(p) ==
    /\ calls[p].op = "deleteInvoice"
    /\ Finish(p)
    /\ IF Exists(invoices, calls[p].id)
          THEN Persist(DeleteInvoiceRow(Store, calls[p].id))
          ELSE NoWrite
    /\ last' = Response("deleteInvoice", calls[p].id, 200)

----------------------------------------------------------------------------
(* Specifications *)

\* the invoice handlers, and submitQuotation for the quotations they convert
Next ==
    \/ \E req \in CreateRequests, number \in NumberSet, f \in 0..4 :
          createInvoice(req, number, f)
    \/ \E id \in RequestIds(nextInvoiceId), updates \in UpdateRequests, f \in 0..4 :
          updateInvoice(id, updates, f)
    \/ \E id \in RequestIds(nextInvoiceId), f \in 0..1 : deleteInvoice(id, f)
    \/ \E id \in RequestIds(nextInvoiceId), amount \in PaymentAmounts, f \in 0..3 :
          recordPayment(id, amount, f)
    \/ \E id \in RequestIds(nextInvoiceId), f \in 0..1 : markAsSent(id, f)
    \/ \E id \in RequestIds(nextInvoiceId), f \in 0..3 : markAsPaid(id, f)
    \/ \E id \in RequestIds(nextInvoiceId), number \in NumberSet, f \in 0..3 :
          duplicateInvoice(id, number, f)
    \/ \E req \in SubmitRequests, reference \in NumberSet, f \in 0..4 :
          submitQuotation(req, reference, f)

Spec == Init /\ [][Next]_vars

\* create requests that convert a quotation or leave out a customer field
QuotationCreateRequests ==
    {[BaseCreateRequest EXCEPT !.quotation_id = {q}] : q \in QuotationIds}
    \cup CustomerlessCreateRequests

\* the quotation handlers, and createInvoice as the quotation flow uses it
QuotationNext ==
    \/ \E req \in SubmitRequests, reference \in NumberSet, f \in 0..4 :
          submitQuotation(req, reference, f)
    \/ \E reference \in NumberSet : trackQuotation(reference)
    \/ \E id \in QuotationRequestIds(nextQuotationId), f \in 0..2 :
          getQuotationById(id, f)
    \/ \E id \in QuotationRequestIds(nextQuotationId), status \in StatusRequests,
          f \in 0..2 : updateQuotationStatus(id, status, f)
    \/ \E id \in QuotationRequestIds(nextQuotationId), admin_notes \in NotesRequests,
          f \in 0..1 : updateQuotationNotes(id, admin_notes, f)
    \/ \E id \in QuotationRequestIds(nextQuotationId), number \in NumberSet,
          f \in 0..3 : convertToInvoice(id, number, f)
    \/ \E id \in QuotationRequestIds(nextQuotationId), f \in 0..1 :
          deleteQuotation(id, f)
    \/ \E req \in QuotationCreateRequests, number \in NumberSet, f \in 0..4 :
          createInvoice(req, number, f)

QuotationSpec == Init /\ [][QuotationNext]_vars

\* every handler that is addressed by id or reference
LifecycleNext ==
    \/ Next
    \/ QuotationNext
    \/ \E id \in RequestIds(nextInvoiceId), f \in 0..1 : getInvoiceById(id, f)

LifecycleSpec == Init /\ [][LifecycleNext]_vars

\* what generateInvoiceNumber() can return when two calls differ
DuplicateNumberSet == {1, 2}

\* invoices with items and payments, and their duplicates
DuplicateNext ==
    \/ \E req \in {[BaseCreateRequest EXCEPT !.items = its] : its \in ItemLists},
          number \in DuplicateNumberSet, f \in 0..4 : createInvoice(req, number, f)
    \/ \E id \in RequestIds(nextInvoiceId), amount \in PaymentAmounts, f \in 0..3 :
          recordPayment(id, amount, f)
    \/ \E id \in RequestIds(nextInvoiceId), f \in 0..1 : markAsSent(id, f)
    \/ \E id \in RequestIds(nextInvoiceId), number \in DuplicateNumberSet,
          f \in 0..3 : duplicateInvoice(id, number, f)

DuplicateSpec == Init /\ [][DuplicateNext]_vars

\* invoices in every stored status, and their listings
ListingNext ==
    \/ \E number \in NumberSet, f \in 0..1 :
          createInvoice(BaseCreateRequest, number, f)
    \/ \E id \in RequestIds(nextInvoiceId), updates \in UpdateRequests, f \in 0..4 :
          updateInvoice(id, updates, f)
    \/ \E id \in RequestIds(nextInvoiceId), amount \in PaymentAmounts, f \in 0..3 :
          recordPayment(id, amount, f)
    \/ \E id \in RequestIds(nextInvoiceId), f \in 0..1 : markAsSent(id, f)
    \/ \E status \in StatusFilters, today \in Todays : getAllInvoices(status, today)

ListingSpec == Init /\ [][ListingNext]_vars

\* invoices whose items carry their own tax rate
ItemNext ==
    \/ \E its \in RatedItemLists, number \in NumberSet, f \in 0..3 :
          createInvoice([BaseCreateRequest EXCEPT !.items = its], number, f)
    \/ \E id \in RequestIds(nextInvoiceId), its \in RatedItemLists, f \in 0..3 :
          updateInvoice(id, [NoUpdate EXCEPT !.items = {its}], f)
    \/ \E id \in RequestIds(nextInvoiceId), number \in NumberSet, f \in 0..3 :
          duplicateInvoice(id, number, f)

ItemSpec == Init /\ [][ItemNext]_vars

\* calls on the same invoices that overlap in time
ConcurrentNext ==
    \/ \E number \in NumberSet : createInvoice(BaseCreateRequest, number, 0)
    \/ \E p \in Procs, id \in RequestIds(nextInvoiceId), amount \in PaymentAmounts :
          recordPaymentRead(p, id, amount)
    \/ \E p \in Procs : recordPaymentWrite(p)
    \/ \E p \in Procs, id \in RequestIds(nextInvoiceId) : markAsPaidRead(p, id)
    \/ \E p \in Procs : markAsPaidWrite(p)
    \/ \E p \in Procs, id \in RequestIds(nextInvoiceId) : deleteInvoiceRead(p, id)
    \/ \E p \in Procs : deleteInvoiceWrite(p)
    \/ \E id \in RequestIds(nextInvoiceId) : markAsSent(id, 0)

ConcurrentSpec == Init /\ [][ConcurrentNext]_vars

\* login on each of the admin_users tables
LoginInit ==
    /\ admin_users \in UserTables
    /\ calls = [p \in Procs |-> Idle]
    /\ invoices = [i \in {} |-> 0]
    /\ invoice_items = [i \in InvoiceIds |-> << >>]
    /\ invoice_payments = [i \in InvoiceIds |-> << >>]
    /\ quotations = [i \in {} |-> 0]
    /\ quotation_items = [i \in QuotationIds |-> << >>]
    /\ quotation_notifications = << >>
    /\ nextInvoiceId = 1
    /\ nextQuotationId = 1
    /\ last = Response("none", 0, 0)
    /\ ops = 0

LoginNext ==
    \E username \in Opt(Usernames), password \in Opt(Passwords),
       jwtSecret \in BOOLEAN : login(username, password, jwtSecret)

LoginSpec == LoginInit /\ [][LoginNext]_vars

----------------------------------------------------------------------------
(* Properties *)

StoreUnchanged ==
    UNCHANGED <<invoices, invoice_items, invoice_payments, quotations,
                quotation_items, quotation_notifications, nextInvoiceId,
                nextQuotationId>>

\* the call of this step was op on a stored invoice
Called(op) == last'.op = op /\ Exists(invoices, last'.id)

\* C1: every stored invoice satisfies balance_due = total - amount_paid in
\* every state reachable by the invoice operations.
C1_BalanceIsTotalMinusPaid ==
    \A id \in DOMAIN invoices :
        invoices[id].balance_due = invoices[id].total - invoices[id].amount_paid

\* C2: after a successful recordPayment, whatever came before, the invoice
\* has balance_due + amount_paid = total.
C2_PaymentRestoresBalance ==
    (last.op = "recordPayment" /\ last.code = 200) =>
        LET invoice == invoices[last.id]
        IN  invoice.balance_due + invoice.amount_paid = invoice.total

\* a payment has been accepted on an invoice that already carried one
C2_Witness ==
    /\ last.op = "recordPayment" /\ last.code = 200
    /\ Len(invoice_payments[last.id]) = 2
    /\ invoices[last.id].balance_due > 0

\* C3: recordPayment with amount <= 0 or amount > balance_due answers 400,
\* appends no payment and leaves the invoice as it was.
C3_InvalidPaymentRejected ==
    [][(/\ Called("recordPayment")
        /\ \/ last'.amount <= 0
           \/ last'.amount > invoices[last'.id].balance_due)
       => /\ last'.code = 400
          /\ invoice_payments' = invoice_payments
          /\ invoices' = invoices
          /\ StoreUnchanged]_vars

\* a positive amount above the balance has been refused on a part-paid invoice
C3_Witness ==
    /\ last.op = "recordPayment" /\ last.code = 400
    /\ Exists(invoices, last.id)
    /\ last.amount > invoices[last.id].balance_due
    /\ invoices[last.id].payment_status = "partial"

\* C4: recordPayment is all-or-nothing: when it answers success the payment
\* row and the new amount_paid / balance_due are both stored, and when a
\* statement or the commit fails the store is what it was before the call.
C4_PaymentAllOrNothing ==
    [][Called("recordPayment") =>
        LET id == last'.id
        IN  IF last'.code = 200
            THEN /\ invoice_payments'[id] =
                        Append(invoice_payments[id], [amount |-> last'.amount])
                 /\ invoices'[id].amount_paid =
                        invoices[id].amount_paid + last'.amount
                 /\ invoices'[id].balance_due =
                        invoices[id].total - invoices'[id].amount_paid
            ELSE StoreUnchanged]_vars

\* an accepted payment has failed in the store and was answered 500
C4_Witness ==
    /\ last.op = "recordPayment" /\ last.code = 500
    /\ Exists(invoices, last.id)
    /\ last.amount > 0 /\ last.amount <= invoices[last.id].balance_due

\* C5: after a successful recordPayment the invoice is paid (status and
\* payment_status paid, paid_date set) if the new balance_due is zero, and
\* otherwise payment_status is partial and status is what it was.
C5_PaymentPromotes ==
    [][(Called("recordPayment") /\ last'.code = 200) =>
        LET id == last'.id
        IN  IF invoices'[id].balance_due = 0
            THEN /\ invoices'[id].status = "paid"
                 /\ invoices'[id].payment_status = "paid"
                 /\ invoices'[id].paid_date
            ELSE /\ invoices'[id].payment_status = "partial"
                 /\ invoices'[id].status = invoices[id].status]_vars

\* C6: updateInvoice on a paid invoice answers 400 and changes neither the
\* invoice row nor its line items.
C6_PaidInvoiceImmutable ==
    [][(Called("updateInvoice") /\ invoices[last'.id].status = "paid")
       => /\ last'.code = 400
          /\ invoices' = invoices
          /\ invoice_items' = invoice_items]_vars

\* an update of a paid invoice has been refused
C6_Witness ==
    /\ last.op = "updateInvoice" /\ last.code = 400
    /\ Exists(invoices, last.id)
    /\ invoices[last.id].status = "paid"

\* C7: deleteInvoice removes a stored invoice exactly when its status is
\* draft (unless the DELETE itself fails); in any other status it answers 400
\* and the invoice, its items and its payments stay as they were.
C7_OnlyDraftsDeleted ==
    [][Called("deleteInvoice") =>
        LET id == last'.id
        IN  IF invoices[id].status = "draft"
            THEN \/ last'.code = 200 /\ ~Exists(invoices', id)
                 \/ last'.code = 500 /\ StoreUnchanged
            ELSE /\ last'.code = 400
                 /\ StoreUnchanged]_vars

\* one invoice has been deleted as a draft and the delete of another, which
\* is not a draft, has been refused
C7_Witness ==
    /\ last.op = "deleteInvoice" /\ last.code = 400
    /\ Exists(invoices, last.id)
    /\ invoices[last.id].status # "draft"
    /\ \E id \in InvoiceIds : id < nextInvoiceId /\ ~Exists(invoices, id)

\* C8: markAsPaid on an invoice that is already paid inserts no payment: the
\* invoice's payments are the same before and after the call.
C8_MarkAsPaidIdempotent ==
    [][(Called("markAsPaid") /\ invoices[last'.id].status = "paid")
       => invoice_payments'[last'.id] = invoice_payments[last'.id]]_vars

\* C9: a successful markAsPaid appends exactly one payment, of the balance_due
\* at the time of the call, and leaves the invoice paid with balance_due 0 and
\* amount_paid = total; a failed one leaves the store as it was.
C9_MarkAsPaidSettles ==
    [][Called("markAsPaid") =>
        LET id == last'.id
        IN  IF last'.code = 200
            THEN /\ invoice_payments'[id] =
                        Append(invoice_payments[id],
                               [amount |-> invoices[id].balance_due])
                 /\ invoices'[id].status = "paid"
                 /\ invoices'[id].payment_status = "paid"
                 /\ invoices'[id].balance_due = 0
                 /\ invoices'[id].amount_paid = invoices'[id].total
                 /\ invoices'[id].total = invoices[id].total
            ELSE /\ last'.code = 500
                 /\ StoreUnchanged]_vars

\* a part-paid invoice has been marked as paid: the second payment is the
\* balance that was left
C9_Witness ==
    /\ last.op = "markAsPaid" /\ last.code = 200
    /\ Len(invoice_payments[last.id]) = 2
    /\ invoice_payments[last.id][1].amount = 300
    /\ invoice_payments[last.id][2].amount = 280
    /\ invoices[last.id].amount_paid = 580

\* C10: createInvoice without an explicit tax_amount and total succeeds and
\* stores tax_amount = (subtotal - discount_amount + shipping_amount) *
\* tax_rate / 100, total = subtotal - discount_amount + shipping_amount +
\* tax_amount, balance_due = total and amount_paid = 0.
C10_CreateComputesTotals ==
    (last.op = "createInvoice" /\ last.tax_amount = {} /\ last.total = {}) =>
        /\ last.code = 201
        /\ Exists(invoices, last.id)
        /\ LET invoice == invoices[last.id]
               base == invoice.subtotal - invoice.discount_amount
                       + invoice.shipping_amount
           IN  /\ invoice.tax_amount * 100 = base * invoice.tax_rate
               /\ invoice.total = base + invoice.tax_amount
               /\ invoice.balance_due = invoice.total
               /\ invoice.amount_paid = 0

\* C11: when createInvoice is given an explicit tax_amount or an explicit
\* total, zero included, the stored tax_amount (total) is the given value:
\* unless the store fails, the call succeeds and the row carries it.
C11_ExplicitAmountsStored ==
    (/\ last.op = "createInvoice"
     /\ last.error # "PersistenceError"
     /\ Defined(last.tax_amount) \/ Defined(last.total))
    => /\ last.code = 201
       /\ Exists(invoices, last.id)
       /\ Defined(last.tax_amount) =>
              invoices[last.id].tax_amount = Val(last.tax_amount)
       /\ Defined(last.total) =>
              invoices[last.id].total = Val(last.total)

\* C12: createInvoice without a customer name or without a customer email
\* answers a validation error (400, not 500) and stores no invoice and no
\* line items.
C12_CustomerRequired ==
    [][(last'.op = "createInvoice" /\ last'.missing # {})
       => /\ last'.code = 400
          /\ StoreUnchanged]_vars

\* the quotation a successful conversion step converts: the one
\* convertToInvoice names, or the one the created invoice was derived from
Converts(q) ==
    /\ Exists(quotations, q)
    /\ \/ last'.op = "convertToInvoice" /\ last'.code = 200 /\ last'.id = q
       \/ /\ last'.op = "createInvoice" /\ last'.code = 201
          /\ invoices'[last'.id].quotation_id = {q}

\* C13: after a successful conversion (convertToInvoice, or createInvoice with
\* quotation_id) the quotation is converted, has converted_at set, and its
\* converted_to_invoice_id is the id of an invoice that the same call has
\* inserted.
C13_ConversionLinksInvoice ==
    [][\A q \in QuotationIds : Converts(q) =>
          /\ quotations'[q].status = "converted"
          /\ quotations'[q].converted_at
          /\ \E ref \in quotations'[q].converted_to_invoice_id :
                /\ ref.kind = "insertId"
                /\ Exists(invoices', ref.n)
                /\ ~Exists(invoices, ref.n)]_vars

\* C14: a converted quotation stays converted: no step of any handler changes
\* the status of a stored quotation from converted to anything else.
C14_ConvertedIsFinal ==
    [][\A q \in DOMAIN quotations :
          (quotations[q].status = "converted" /\ Exists(quotations', q))
          => quotations'[q].status = "converted"]_vars

NotificationCount(notifications, qid, type) ==
    Cardinality({i \in 1..Len(notifications) :
                    notifications[i] = Notification(qid, type)})

\* C15: every step that takes a quotation to status converted, whichever
\* handler makes it, sets converted_at and adds one 'converted' notification
\* for that quotation.
C15_ConversionStampsAndNotifies ==
    [][\A q \in DOMAIN quotations :
          (/\ Exists(quotations', q)
           /\ quotations[q].status # "converted"
           /\ quotations'[q].status = "converted")
          => /\ quotations'[q].converted_at
             /\ NotificationCount(quotation_notifications', q, "converted")
                   = NotificationCount(quotation_notifications, q, "converted") + 1]_vars

\* C16: getQuotationById changes a status only from pending to viewed, and
\* then sets viewed_at: a pending quotation it reads is viewed afterwards
\* (unless the UPDATE itself failed, which leaves the row as it was), a
\* quotation in any other status keeps its row, and no other quotation
\* changes.
C16_ReadMarksPendingViewed ==
    [][(last'.op = "getQuotationById" /\ Exists(quotations, last'.id)) =>
        LET id == last'.id
        IN  /\ DOMAIN quotations' = DOMAIN quotations
            /\ \A q \in DOMAIN quotations \ {id} : quotations'[q] = quotations[q]
            /\ IF quotations[id].status = "pending"
               THEN \/ quotations'[id] = [quotations[id] EXCEPT
                                             !.status = "viewed",
                                             !.viewed_at = TRUE]
                    \/ last'.code = 500 /\ quotations'[id] = quotations[id]
               ELSE quotations'[id] = quotations[id]]_vars

\* a quotation that was viewed and then converted has been read again and is
\* still converted
C16_Witness ==
    /\ last.op = "getQuotationById" /\ last.code = 200
    /\ Exists(quotations, last.id)
    /\ quotations[last.id].status = "converted"
    /\ quotations[last.id].viewed_at

\* C17: submitQuotation without a customer name, without a customer email or
\* without items answers 400 and writes nothing; otherwise it stores, all
\* together or (when the store fails) not at all, a pending quotation, every
\* line item and one 'new' notification, and answers the generated reference
\* and the validity date.
C17_SubmitValidatesAndPersists ==
    [][(last'.op = "submitQuotation") =>
        IF last'.missing # {}
        THEN last'.code = 400 /\ StoreUnchanged
        ELSE \/ last'.code = 500 /\ StoreUnchanged
             \/ LET id == nextQuotationId
                IN  /\ last'.code = 201 /\ last'.id = id
                    /\ ~Exists(quotations, id)
                    /\ DOMAIN quotations' = DOMAIN quotations \cup {id}
                    /\ \A q \in DOMAIN quotations : quotations'[q] = quotations[q]
                    /\ quotations'[id].status = "pending"
                    /\ last'.reference = {quotations'[id].quotation_id}
                    /\ last'.valid_until = {quotations'[id].valid_until}
                    /\ quotations'[id].valid_until = ValidityDays
                    /\ Len(quotation_items'[id]) = last'.items
                    /\ \A i \in 1..Len(quotation_items'[id]) :
                          \E it \in QuotationItemRequests :
                              quotation_items'[id][i] = QuotationItemRow(it)
                    /\ quotation_notifications' =
                          Append(quotation_notifications, Notification(id, "new"))
                    /\ UNCHANGED <<invoices, invoice_items, invoice_payments>>]_vars

\* a request without items has been refused after a complete one was stored
\* with its item and its notification
C17_Witness ==
    /\ last.op = "submitQuotation" /\ last.code = 400
    /\ last.missing = {"items"}
    /\ \E q \in DOMAIN quotations :
          /\ quotations[q].status = "pending"
          /\ Len(quotation_items[q]) = 1
          /\ HasNotification(quotation_notifications, q, "new")

InvoiceOpsById ==
    {"getInvoiceById", "updateInvoice", "deleteInvoice", "recordPayment",
     "markAsPaid", "markAsSent", "duplicateInvoice"}

QuotationOpsById ==
    {"getQuotationById", "updateQuotationStatus", "updateQuotationNotes",
     "convertToInvoice", "deleteQuotation"}

\* the call of this step names a document that is not stored
AddressesMissingDocument ==
    \/ last'.op \in InvoiceOpsById /\ ~Exists(invoices, last'.id)
    \/ last'.op \in QuotationOpsById /\ ~Exists(quotations, last'.id)
    \/ /\ last'.op = "trackQuotation"
       /\ \A q \in DOMAIN quotations :
             {quotations[q].quotation_id} # last'.reference

\* C18: every invoice or quotation handler that is called with the id or the
\* reference of a document that is not stored answers 404, not success, and
\* writes nothing (a call during which the store itself failed is left out).
C18_MissingDocumentNotFound ==
    [][(AddressesMissingDocument /\ last'.error # "PersistenceError")
       => (last'.code = 404 /\ StoreUnchanged)]_vars

\* C19: duplicateInvoice leaves the source invoice, its items and its
\* payments as they were and, when it succeeds, adds one invoice that has the
\* number generated by this call, status draft, payment_status unpaid,
\* amount_paid 0, balance_due = total, no payments and a copy of every line
\* item of the source; when the store fails nothing is added.
C19_DuplicateCopiesWithoutMutating ==
    [][Called("duplicateInvoice") =>
        LET id == last'.id
            new == nextInvoiceId
        IN  /\ invoices'[id] = invoices[id]
            /\ invoice_items'[id] = invoice_items[id]
            /\ invoice_payments'[id] = invoice_payments[id]
            /\ IF last'.code = 200
               THEN /\ ~Exists(invoices, new)
                    /\ DOMAIN invoices' = DOMAIN invoices \cup {new}
                    /\ {invoices'[new].invoice_number} = last'.reference
                    /\ invoices'[new].status = "draft"
                    /\ invoices'[new].payment_status = "unpaid"
                    /\ invoices'[new].amount_paid = 0
                    /\ invoices'[new].balance_due = invoices'[new].total
                    /\ invoices'[new].total = invoices[id].total
                    /\ invoice_payments'[new] = << >>
                    /\ invoice_items'[new] = invoice_items[id]
               ELSE StoreUnchanged]_vars

\* a part-paid, sent invoice with a line item has been duplicated under
\* another number
C19_Witness ==
    /\ last.op = "duplicateInvoice" /\ last.code = 200
    /\ Exists(invoices, last.id)
    /\ invoices[last.id].status = "pending"
    /\ Len(invoice_payments[last.id]) = 1
    /\ Len(invoice_items[last.id]) = 1
    /\ \E new \in DOMAIN invoices :
          /\ new # last.id
          /\ invoices[new].invoice_number # invoices[last.id].invoice_number
          /\ Len(invoice_items[new]) = 1

\* C20: an invoice that createInvoice stores without a quotation_id has status
\* draft, whatever the request says.
C20_StandaloneStartsDraft ==
    (/\ last.op = "createInvoice" /\ last.code = 201
     /\ invoices[last.id].quotation_id = {})
    => invoices[last.id].status = "draft"

\* the handlers that write more than one record
MultiWriteOps ==
    {"submitQuotation", "createInvoice", "updateInvoice", "recordPayment",
     "markAsPaid", "duplicateInvoice", "convertToInvoice",
     "updateQuotationStatus", "getQuotationById"}

\* C21: every handler that writes more than one record is all-or-nothing: when
\* one of its writes fails in the store, none of its writes remains.
C21_MultiWriteAllOrNothing ==
    [][(last'.op \in MultiWriteOps /\ last'.error = "PersistenceError")
       => StoreUnchanged]_vars

\* C22: no step of any handler lowers the amount_paid of a stored invoice.
C22_AmountPaidNeverDecreases ==
    [][\A id \in DOMAIN invoices :
          Exists(invoices', id)
          => invoices'[id].amount_paid >= invoices[id].amount_paid]_vars

\* C23: every stored invoice (all are created with a total >= 0) has
\* balance_due >= 0, and every stored payment has a positive amount.
C23_BalanceNonNegative ==
    \A id \in DOMAIN invoices :
        /\ invoices[id].balance_due >= 0
        /\ \A i \in 1..Len(invoice_payments[id]) :
              invoice_payments[id][i].amount > 0

RECURSIVE SumOfAmounts(_)
SumOfAmounts(payments) ==
    IF Len(payments) = 0 THEN 0
    ELSE payments[1].amount + SumOfAmounts(Tail(payments))

\* C28: in every state reached by complete handler calls, the amount_paid of
\* a stored invoice is the sum of the amounts of its stored payments.
C28_AmountPaidIsSumOfPayments ==
    \A id \in DOMAIN invoices :
        invoices[id].amount_paid = SumOfAmounts(invoice_payments[id])

\* what the listing is to report as overdue
Overdue(i, today) ==
    /\ i.due_date < today
    /\ i.balance_due > 0
    /\ i.status \notin {"paid", "cancelled"}

\* C24: getAllInvoices reports an invoice as overdue (calculated_status, and
\* the rows of the status = overdue filter) exactly when due_date < today,
\* balance_due > 0 and the stored status is neither paid nor cancelled.
C24_OverdueDerivation ==
    (last.op = "getAllInvoices") =>
        /\ \A id \in last.listed :
              (last.calculated[id] = "overdue")
                  <=> Overdue(invoices[id], last.today)
        /\ last.status = {"overdue"} =>
              last.listed = {id \in DOMAIN invoices :
                                Overdue(invoices[id], last.today)}

\* C25: every line item that createInvoice or updateInvoice stores from a
\* request item with its own tax_rate (0 included) has tax_amount =
\* unit_price * quantity * item.tax_rate / 100 and total = unit_price *
\* quantity + tax_amount; the invoice's tax rate is used only for an item
\* without a tax rate.
C25_ItemTaxFromOwnRate ==
    (last.op \in {"createInvoice", "updateInvoice"}) =>
        \A i \in 1..Len(last.item_tax_rates) :
            LET row == invoice_items[last.id][i]
                rate == IF Defined(last.item_tax_rates[i])
                        THEN Val(last.item_tax_rates[i])
                        ELSE invoices[last.id].tax_rate
            IN  /\ row.tax_amount * 100 = row.unit_price * row.quantity * rate
                /\ row.total = row.unit_price * row.quantity + row.tax_amount

\* C26: every handler that begins a transaction has committed it or rolled it
\* back when the connection is released, on the not-found and validation
\* returns too.
C26_TransactionClosedAtRelease ==
    (last.op \in TransactionalOps) =>
        last.transaction \in {"committed", "rolledBack"}

\* C27: when concurrent recordPayment and markAsPaid calls on an invoice have
\* all finished, no update is lost: amount_paid is the sum of the payments
\* that were stored, and that sum does not exceed the total.
C27_NoLostPayment ==
    (\A p \in Procs : calls[p] = Idle) =>
        \A id \in DOMAIN invoices :
            /\ invoices[id].amount_paid = SumOfAmounts(invoice_payments[id])
            /\ SumOfAmounts(invoice_payments[id]) <= invoices[id].total

\* C29: however deleteInvoice interleaves with other calls, an invoice is
\* only ever deleted while its stored status is draft.
C29_DeletedOnlyAsDraft ==
    [][\A id \in DOMAIN invoices :
          ~Exists(invoices', id) => invoices[id].status = "draft"]_vars

\* the credentials of the latest login are those of a stored account that is
\* not deactivated and whose hash bcrypt matches with the password
ValidCredentials ==
    /\ Defined(last.username) /\ Defined(last.password)
    /\ Val(last.username) \in DOMAIN admin_users
    /\ admin_users[Val(last.username)].is_active # 0
    /\ admin_users[Val(last.username)].password_hash
           = {bcryptHash(Val(last.password))}

\* C30: login answers a token only for a stored, not deactivated account and
\* a password that bcrypt matches with the stored hash; for every other input
\* it answers 401 or 400 and no token.
C30_TokenOnlyForValidCredentials ==
    (last.op = "login") =>
        /\ Defined(last.token) => ValidCredentials
        /\ ~ValidCredentials => (last.code \in {400, 401} /\ ~Defined(last.token))

====
